---- MODULE Spec2Model ----
(***************************************************************************)
(* partpost: conversion of particle-tracking NetCDF output into lines or   *)
(* points (src/src/partpost/proc.py) and its JSON batch runner             *)
(* (src/src/partpost/cli.py).                                              *)
(*                                                                         *)
(* Conventions of the model                                                *)
(*  - a Python str is a sequence of one-character strings;                 *)
(*  - a float is a record [nan, inf, v]: NaN, an infinity, or the number v;*)
(*  - a timestamp, a time difference and the requested interval are whole  *)
(*    numbers of half seconds, so that rounding to whole seconds acts;     *)
(*  - array indices are 1-based, particle ids (par_id) stay 0-based.       *)
(***************************************************************************)
EXTENDS Integers, Sequences, FiniteSets, TLC

VARIABLES
    phase,        \* which program runs and where it stands
    nc,           \* conversion: the file found at nc_file
    downscale,    \* conversion: downscale_hours, in half seconds
    conv,         \* conversion: what the call did (its exit, its locals)
    gdf_in,       \* export_gdf: the collection handed in
    out_path,     \* export_gdf and conversion: output_path
    written,      \* export_gdf: what the call did
    config,       \* cli: the file at the config path
    tasks,        \* cli: main's task list
    next_task,    \* cli: position of main's for loop (1-based)
    handed,       \* cli: indices of the tasks handed to process_task, in order
    outcomes,     \* cli: what each process_task call did, in order
    exit_code     \* cli: -1 while running, then the process exit status

vars == <<phase, nc, downscale, conv, gdf_in, out_path, written,
          config, tasks, next_task, handed, outcomes, exit_code>>

---------------------------------------------------------------------------
(* Bounds of the model *)

\* longest time axis of the time-axis family
MaxN == 4
\* most cells (timesteps x particles) of a grid of the grid family
MaxCells == 5
\* longest task list of a configuration
MaxTasks == 2

\* lon.attrs.get("_FillValue", -999.0)
DefaultFill == -999

---------------------------------------------------------------------------
(* Sequences, strings *)

Range(s) == {s[i] : i \in DOMAIN s}

Max2(a, b) == IF a >= b THEN a ELSE b

SetMin(S) == CHOOSE m \in S : \A o \in S : m <= o

RECURSIVE Ascending(_)
\* the elements of a finite set of integers, in ascending order
Ascending(S) ==
    IF S = {} THEN <<>>
    ELSE LET m == SetMin(S) IN <<m>> \o Ascending(S \ {m})

\* index of the last occurrence of character c in s, 0 when there is none
\* (str.rfind, shifted to 1-based)
RFind(s, c) ==
    LET hits == {i \in DOMAIN s : s[i] = c}
    IN IF hits = {} THEN 0 ELSE CHOOSE i \in hits : \A j \in hits : j <= i

UpperToLower ==
    [c \in {"A", "C", "E", "G", "I", "J", "K", "L", "M", "N", "O", "P",
            "Q", "S", "T", "V", "X"} |->
        CASE c = "A" -> "a" [] c = "C" -> "c" [] c = "E" -> "e"
          [] c = "G" -> "g" [] c = "I" -> "i" [] c = "J" -> "j"
          [] c = "K" -> "k" [] c = "L" -> "l" [] c = "M" -> "m"
          [] c = "N" -> "n" [] c = "O" -> "o" [] c = "P" -> "p"
          [] c = "Q" -> "q" [] c = "S" -> "s" [] c = "T" -> "t"
          [] c = "V" -> "v" [] c = "X" -> "x"]

\* str.lower()
Lower(s) ==
    [i \in DOMAIN s |->
        IF s[i] \in DOMAIN UpperToLower THEN UpperToLower[s[i]] ELSE s[i]]

\* str.upper(), for the upper-case variants of a path
Upper(s) ==
    [i \in DOMAIN s |->
        IF \E u \in DOMAIN UpperToLower : UpperToLower[u] = s[i]
        THEN CHOOSE u \in DOMAIN UpperToLower : UpperToLower[u] = s[i]
        ELSE s[i]]

\* os.path.splitext(p)[1] (posixpath): the suffix from the last dot of the
\* last path component, empty when that component has no dot or only
\* leading dots
SplitExt(p) ==
    LET sepIndex == RFind(p, "/")
        dotIndex == RFind(p, ".")
    IN IF dotIndex > sepIndex
          /\ \E k \in (sepIndex + 1)..(dotIndex - 1) : p[k] # "."
       THEN SubSeq(p, dotIndex, Len(p))
       ELSE <<>>

RECURSIVE RStripSep(_)
\* head.rstrip("/")
RStripSep(s) ==
    IF s # <<>> /\ s[Len(s)] = "/" THEN RStripSep(SubSeq(s, 1, Len(s) - 1))
    ELSE s

\* os.path.dirname(p) (posixpath)
DirName(p) ==
    LET head == SubSeq(p, 1, RFind(p, "/"))
    IN IF head # <<>> /\ \E k \in DOMAIN head : head[k] # "/"
       THEN RStripSep(head)
       ELSE head

---------------------------------------------------------------------------
(* Floats *)

Num(v) == [nan |-> FALSE, inf |-> FALSE, v |-> v]
NaN == [nan |-> TRUE, inf |-> FALSE, v |-> 0]
Inf == [nan |-> FALSE, inf |-> TRUE, v |-> 0]

\* np.isnan
IsNan(f) == f.nan
\* np.isfinite
IsFinite(f) == ~f.nan /\ ~f.inf
\* a == b on floats: NaN equals nothing, itself included
FloatEq(a, b) == ~a.nan /\ ~b.nan /\ a.inf = b.inf /\ (a.inf \/ a.v = b.v)

\* round(p / q) for q > 0: Python 3 rounds a half to the even neighbour
RoundHalfEven(p, q) ==
    LET f == p \div q
        r == p - f * q
    IN IF 2 * r < q THEN f
       ELSE IF 2 * r > q THEN f + 1
       ELSE IF f % 2 = 0 THEN f ELSE f + 1

\* .round("s") of a timestamp in half seconds: the nearest whole second,
\* a half going to the even second; the result is in half seconds too
RoundS(t) == 2 * RoundHalfEven(t, 2)

---------------------------------------------------------------------------
(* export_gdf *)

CsvExt == <<".", "c", "s", "v">>
XlsxExt == <<".", "x", "l", "s", "x">>
ShpExt == <<".", "s", "h", "p">>

DRIVER_MAP ==
    [e \in {ShpExt,
            <<".", "g", "p", "k", "g">>,
            <<".", "j", "s", "o", "n">>,
            <<".", "g", "e", "o", "j", "s", "o", "n">>,
            <<".", "g", "e", "o", "j", "s", "o", "n", "l">>,
            <<".", "s", "q", "l", "i", "t", "e">>,
            <<".", "g", "m", "l">>,
            <<".", "k", "m", "l">>} |->
        CASE e = ShpExt -> "ESRI Shapefile"
          [] e = <<".", "g", "p", "k", "g">> -> "GPKG"
          [] e = <<".", "j", "s", "o", "n">> -> "GeoJSON"
          [] e = <<".", "g", "e", "o", "j", "s", "o", "n">> -> "GeoJSON"
          [] e = <<".", "g", "e", "o", "j", "s", "o", "n", "l">> -> "GeoJSONSeq"
          [] e = <<".", "s", "q", "l", "i", "t", "e">> -> "SQLite"
          [] e = <<".", "g", "m", "l">> -> "GML"
          [] e = <<".", "k", "m", "l">> -> "KML"]

\* the columns of a collection for which is_datetime64_any_dtype holds
DatetimeColumns(gdf) ==
    {gdf.columns[i].name : i \in {j \in DOMAIN gdf.columns :
                                     gdf.columns[j].dtype = "datetime64"}}

ColumnNames(gdf) == [i \in DOMAIN gdf.columns |-> gdf.columns[i].name]

NotExported ==
    [called |-> FALSE, ext |-> <<>>, made_dirs |-> {}, writer |-> "none",
     driver |-> "none", columns |-> <<>>, stringified |-> {},
     file_written |-> FALSE, exc |-> "none"]

\* one write call of export_gdf: DataFrame.to_csv, DataFrame.to_excel and
\* GeoDataFrame.to_file each write every column of the frame they are
\* called on; backend_fails is the backend raising instead of writing
WriteCall(gdf, ext, output_dir, writer, driver, stringified, backend_fails) ==
    [called |-> TRUE, ext |-> ext,
     made_dirs |-> IF output_dir # <<>> THEN {output_dir} ELSE {},
     writer |-> writer, driver |-> driver,
     columns |-> ColumnNames(gdf), stringified |-> stringified,
     file_written |-> ~backend_fails,
     exc |-> IF backend_fails THEN "BackendError" ELSE "none"]

\* export_gdf as written without the .lower() of the extension
ExportGdfNoLower(gdf, output_path, backend_fails) ==
    LET ext == SplitExt(output_path)
        output_dir == DirName(output_path)
    IN IF ext = CsvExt
       THEN WriteCall(gdf, ext, output_dir, "to_csv", "none", {}, backend_fails)
       ELSE IF ext = XlsxExt
       THEN WriteCall(gdf, ext, output_dir, "to_excel", "none",
                      DatetimeColumns(gdf), backend_fails)
       ELSE IF ext \notin DOMAIN DRIVER_MAP
       THEN WriteCall(gdf, ext, output_dir, "to_file", "default", {},
                      backend_fails)
       ELSE IF DRIVER_MAP[ext] = "ESRI Shapefile"
       THEN WriteCall(gdf, ext, output_dir, "to_file", DRIVER_MAP[ext],
                      DatetimeColumns(gdf), backend_fails)
       ELSE WriteCall(gdf, ext, output_dir, "to_file", DRIVER_MAP[ext], {},
                      backend_fails)

export_gdf(gdf, output_path, backend_fails) ==
    LET ext == Lower(SplitExt(output_path))
        output_dir == DirName(output_path)
    IN IF ext = CsvExt
       THEN WriteCall(gdf, ext, output_dir, "to_csv", "none", {}, backend_fails)
       ELSE IF ext = XlsxExt
       THEN WriteCall(gdf, ext, output_dir, "to_excel", "none",
                      DatetimeColumns(gdf), backend_fails)
       ELSE IF ext \notin DOMAIN DRIVER_MAP
       THEN WriteCall(gdf, ext, output_dir, "to_file", "default", {},
                      backend_fails)
       ELSE IF DRIVER_MAP[ext] = "ESRI Shapefile"
       THEN WriteCall(gdf, ext, output_dir, "to_file", DRIVER_MAP[ext],
                      DatetimeColumns(gdf), backend_fails)
       ELSE WriteCall(gdf, ext, output_dir, "to_file", DRIVER_MAP[ext], {},
                      backend_fails)

---------------------------------------------------------------------------
(* The shared head of ncTrk2line and ncTrk2pt: load, stride, downscale, mask *)

\* attrs.get(key, default) on a set of <<key, value>> pairs
AttrGet(attrs, key, default) ==
    IF \E a \in attrs : a[1] = key
    THEN (CHOOSE a \in attrs : a[1] = key)[2]
    ELSE default

\* np.diff(time_values), in half seconds
Diff(time_values) ==
    [i \in 1..(Len(time_values) - 1) |-> time_values[i + 1] - time_values[i]]

\* the k-th smallest element of a non-empty sequence of integers
KthSmallest(d, k) ==
    CHOOSE v \in Range(d) :
        /\ Cardinality({i \in DOMAIN d : d[i] < v}) < k
        /\ Cardinality({i \in DOMAIN d : d[i] <= v}) >= k

\* twice np.median(d): the middle element, or the mean of the two middle ones
Median2(d) ==
    LET n == Len(d)
    IN IF n % 2 = 1 THEN 2 * KthSmallest(d, (n + 1) \div 2)
       ELSE KthSmallest(d, n \div 2) + KthSmallest(d, (n \div 2) + 1)

\* max(1, int(round(downscale_seconds / median_dt))) for median_dt # 0, with
\* downscale_seconds = ds / 2 and median_dt = m2 / 4 seconds
Step(ds, m2) ==
    LET p == IF m2 > 0 THEN 2 * ds ELSE -(2 * ds)
        q == IF m2 > 0 THEN m2 ELSE -m2
    IN Max2(1, RoundHalfEven(p, q))

\* the indices a[::step] keeps of an axis of length n, in order
Retained(n, st) == Ascending({i \in 1..n : (i - 1) % st = 0})

\* a[a == fill_val] = np.nan, for one element
MaskFill(f, fill_val) == IF FloatEq(f, fill_val) THEN NaN ELSE f

\* the call's state where nothing was computed yet
NoConv ==
    [exc |-> "none", ret |-> "running", ds |-> "unopened", median2 |-> 0,
     step |-> 0, rows |-> <<>>, n_particles |-> 0, records |-> <<>>,
     export |-> NotExported]

\* lines 83-122 and 182-221: everything up to the masked, downscaled arrays
LoadAndDownscale(file, downscale_hours) ==
    IF downscale_hours.type = "null"
    THEN [NoConv EXCEPT !.exc = "TypeError"]
    ELSE IF ~file.exists
    THEN [NoConv EXCEPT !.exc = "FileNotFoundError"]
    ELSE IF ~({"particles_x_coordinate", "particles_y_coordinate", "time"}
                \subseteq file.variables)
    THEN [NoConv EXCEPT !.exc = "KeyError", !.ds = "open"]
    ELSE IF downscale_hours.type # "num"
    THEN [NoConv EXCEPT !.exc = "TypeError", !.ds = "open"]
    ELSE LET m2 == Median2(Diff(file.time))
         IN IF m2 = 0
            THEN [NoConv EXCEPT !.exc = "ZeroDivisionError", !.ds = "open"]
            ELSE LET st == Step(downscale_hours.n, m2)
                 IN [NoConv EXCEPT !.ds = "open", !.median2 = m2, !.step = st,
                                   !.rows = Retained(Len(file.time), st),
                                   !.n_particles = Len(file.lon[1])]

fill_val(file) == AttrGet(file.lon_attrs, "_FillValue", Num(DefaultFill))

\* lon_sub[k][p], lat_sub[k][p] after masking; time_sub[k]
lon_sub(file, h, k, p) == MaskFill(file.lon[h.rows[k]][p], fill_val(file))
lat_sub(file, h, k, p) == MaskFill(file.lat[h.rows[k]][p], fill_val(file))
time_sub(file, h, k) == RoundS(file.time[h.rows[k]])

---------------------------------------------------------------------------
(* ncTrk2line and ncTrk2pt *)

Column(name, dtype) == [name |-> name, dtype |-> dtype]

LineColumns ==
    <<Column("par_id", "int64"), Column("time_start", "datetime64"),
      Column("time_end", "datetime64"), Column("geometry", "geometry")>>

PointColumns ==
    <<Column("par_id", "int64"), Column("time", "datetime64"),
      Column("geometry", "geometry")>>

\* the retained positions k at which particle p has both coordinates finite
FiniteRows(file, h, p) ==
    {k \in DOMAIN h.rows :
        IsFinite(lon_sub(file, h, k, p)) /\ IsFinite(lat_sub(file, h, k, p))}

\* one pass of the loop over pid with a threshold of one point for a line
TrackOfOnePoint(file, h, p) ==
    LET mask == Ascending(FiniteRows(file, h, p))
        all_nan ==
            \/ \A k \in DOMAIN h.rows : IsNan(lon_sub(file, h, k, p))
            \/ \A k \in DOMAIN h.rows : IsNan(lat_sub(file, h, k, p))
    IN IF all_nan \/ ~(Len(mask) > 0)
       THEN <<>>
       ELSE <<[par_id |-> p - 1,
               time_start |-> RoundS(time_sub(file, h, mask[1])),
               time_end |-> RoundS(time_sub(file, h, mask[Len(mask)])),
               geometry |-> [j \in DOMAIN mask |->
                                <<lon_sub(file, h, mask[j], p).v,
                                  lat_sub(file, h, mask[j], p).v>>]]>>

\* one pass of the loop over pid (p = pid + 1): the rows it appends, none
\* or one
TrackOf(file, h, p) ==
    LET mask == Ascending(FiniteRows(file, h, p))
        all_nan ==
            \/ \A k \in DOMAIN h.rows : IsNan(lon_sub(file, h, k, p))
            \/ \A k \in DOMAIN h.rows : IsNan(lat_sub(file, h, k, p))
    IN IF all_nan \/ ~(Len(mask) > 1)
       THEN <<>>
       ELSE <<[par_id |-> p - 1,
               time_start |-> RoundS(time_sub(file, h, mask[1])),
               time_end |-> RoundS(time_sub(file, h, mask[Len(mask)])),
               geometry |-> [j \in DOMAIN mask |->
                                <<lon_sub(file, h, mask[j], p).v,
                                  lat_sub(file, h, mask[j], p).v>>]]>>

RECURSIVE TracksUpTo(_, _, _)
\* the lists built by  for pid in range(n_particles)  after p passes
TracksUpTo(file, h, p) ==
    IF p = 0 THEN <<>>
    ELSE TracksUpTo(file, h, p - 1) \o TrackOf(file, h, p)

\* the cell of flat index i when the grid is walked particle by particle
CellColumnMajor(h, i) ==
    [row |-> ((i - 1) % Len(h.rows)) + 1,
     col |-> ((i - 1) \div Len(h.rows)) + 1]

\* the cell of flat index i (1-based) of the [time, particle] grid in C order
CellRowMajor(h, i) ==
    [row |-> ((i - 1) \div h.n_particles) + 1,
     col |-> ((i - 1) % h.n_particles) + 1]

\* rows, cols = np.where(valid_mask) and the table built from them
PointRecords(file, h) ==
    LET n == Len(h.rows) * h.n_particles
        cells == [i \in 1..n |-> CellRowMajor(h, i)]
        IsValid(c) == c.row \in FiniteRows(file, h, c.col)
        hit == SelectSeq(cells, IsValid)
    IN [j \in DOMAIN hit |->
           [par_id |-> hit[j].col - 1,
            time |-> time_sub(file, h, hit[j].row),
            geometry |-> <<lon_sub(file, h, hit[j].row, hit[j].col).v,
                           lat_sub(file, h, hit[j].row, hit[j].col).v>>]]

\* the dataset object when the call returns: the code never closes it, so
\* it is closed only if the interpreter has already finalised the dropped
\* object (collected); an exception's traceback keeps the frame, and with
\* it the dataset, alive
DsAtReturn(collected) == IF collected THEN "closed" ELSE "open"

\* the tail of both routines with the empty-result test left out
ExportAlways(h, columns, rows, output_path, backend_fails, collected) ==
    LET e == export_gdf([columns |-> columns, rows |-> rows], output_path,
                        backend_fails)
    IN IF e.exc # "none"
       THEN [h EXCEPT !.exc = e.exc, !.ret = "raised", !.records = rows,
                      !.export = e]
       ELSE [h EXCEPT !.ret = "gdf", !.records = rows, !.export = e,
                      !.ds = DsAtReturn(collected)]

\* the tail of both routines: return None on an empty result, else build
\* the GeoDataFrame, export it and return it
ExportOrSkip(h, columns, rows, output_path, backend_fails, collected) ==
    IF rows = <<>>
    THEN [h EXCEPT !.ret = "None", !.ds = DsAtReturn(collected)]
    ELSE LET e == export_gdf([columns |-> columns, rows |-> rows],
                             output_path, backend_fails)
         IN IF e.exc # "none"
            THEN [h EXCEPT !.exc = e.exc, !.ret = "raised", !.records = rows,
                           !.export = e]
            ELSE [h EXCEPT !.ret = "gdf", !.records = rows, !.export = e,
                           !.ds = DsAtReturn(collected)]

ncTrk2line(file, output_path, downscale_hours, backend_fails, collected) ==
    LET h == LoadAndDownscale(file, downscale_hours)
    IN IF h.exc # "none"
       THEN [h EXCEPT !.ret = "raised"]
       ELSE ExportOrSkip(h, LineColumns, TracksUpTo(file, h, h.n_particles),
                         output_path, backend_fails, collected)

ncTrk2pt(file, output_path, downscale_hours, backend_fails, collected) ==
    LET h == LoadAndDownscale(file, downscale_hours)
    IN IF h.exc # "none"
       THEN [h EXCEPT !.ret = "raised"]
       ELSE ExportOrSkip(h, PointColumns, PointRecords(file, h),
                         output_path, backend_fails, collected)

---------------------------------------------------------------------------
(* Inputs of a conversion call *)

\* a JSON number of hours, given in half seconds; JSON null; a JSON string
HoursNum(n) == [type |-> "num", n |-> n, s |-> <<>>]
JsonNull == [type |-> "null", n |-> 0, s |-> <<>>]
JsonStr(s) == [type |-> "str", n |-> 0, s |-> s]
JsonAbsent == [type |-> "absent", n |-> 0, s |-> <<>>]

AllVariables == {"particles_x_coordinate", "particles_y_coordinate", "time"}

MissingFile ==
    [exists |-> FALSE, variables |-> {}, lon_attrs |-> {}, time |-> <<>>,
     lon |-> <<>>, lat |-> <<>>]

\* a dataset of n timesteps and p particles; kind[i][j] says what cell
\* [i, j] holds. A good cell holds coordinates that name its place, so that
\* a misplaced or reordered vertex shows.
Dataset(time, p, attrs, kind) ==
    [exists |-> TRUE, variables |-> AllVariables, lon_attrs |-> attrs,
     time |-> time,
     lon |-> [i \in DOMAIN time |-> [j \in 1..p |->
                 CASE kind[i][j] = "lon_fill" -> Num(DefaultFill)
                   [] kind[i][j] = "lon_inf" -> Inf
                   [] OTHER -> Num(10 * i + j)]],
     lat |-> [i \in DOMAIN time |-> [j \in 1..p |->
                 CASE kind[i][j] = "lat_fill" -> Num(DefaultFill)
                   [] kind[i][j] = "lat_nan" -> NaN
                   [] OTHER -> Num(100 + 10 * i + j)]]]

AllGood(n, p) == [i \in 1..n |-> [j \in 1..p |-> "ok"]]

\* the time axis that starts at t0 and advances by the differences d
RECURSIVE AxisFrom(_, _)
AxisFrom(t0, d) ==
    IF d = <<>> THEN <<t0>>
    ELSE <<t0>> \o AxisFrom(t0 + d[1], Tail(d))

\* sorted time axes of 2..MaxN timestamps, repeated timestamps included
TimeDiffs == {0, 3, 4}
TimeAxes ==
    UNION {{AxisFrom(1, d) : d \in [1..(n - 1) -> TimeDiffs]} : n \in 2..MaxN}

\* requested intervals, in half seconds
Downscales == {1, 2, 6, 10}

\* 100 hourly timestamps
HourlyAxis == [i \in 1..100 |-> 7200 * (i - 1)]

HourlyInput ==
    <<Dataset(HourlyAxis, 1, {}, AllGood(100, 1)), HoursNum(3 * 7200)>>

\* grids of at most MaxCells cells on a uniform axis of 1.5 s steps
\* starting at 0.5 s, every cell of every kind, with the default fill value
\* or a _FillValue attribute of 0, kept whole or at every second timestep
CellKinds == {"ok", "lon_fill", "lat_fill", "lat_nan"}
Shapes ==
    {s \in (2..MaxCells) \X (1..MaxCells) : s[1] * s[2] <= MaxCells}
UniformAxis(n) == [i \in 1..n |-> 1 + 3 * (i - 1)]
FillAttrs == {{}, {<<"_FillValue", Num(0)>>}}
GridDownscales == {3, 6}

\* infinite and NaN coordinates side by side, a string and a null interval,
\* a missing file, files that lack a variable
OddFamily ==
    LET good == Dataset(UniformAxis(3), 2, {}, AllGood(3, 2))
        k1 == <<<<"lon_inf", "ok">>, <<"lon_inf", "ok">>,
                <<"lon_inf", "lat_nan">>>>
    IN {<<Dataset(UniformAxis(3), 2, {}, k1), HoursNum(3)>>,
        <<good, JsonNull>>,
        <<good, JsonStr(<<"3">>)>>,
        <<MissingFile, HoursNum(3)>>,
        <<MissingFile, JsonNull>>}
       \cup {<<[good EXCEPT !.variables = AllVariables \ {v}], HoursNum(3)>> :
                v \in AllVariables}

ConvPath == <<"d", "/", "o", ".", "g", "p", "k", "g">>

---------------------------------------------------------------------------
(* One conversion call *)

Idle == "idle"

InitConv ==
    /\ phase = "call"
    /\ \/ \E s \in Shapes :
             \E k \in [1..s[1] -> [1..s[2] -> CellKinds]],
                a \in FillAttrs, d \in GridDownscales :
                /\ nc = Dataset(UniformAxis(s[1]), s[2], a, k)
                /\ downscale = HoursNum(d)
       \/ \E t \in TimeAxes, d \in Downscales :
             /\ nc = Dataset(t, 1, {}, AllGood(Len(t), 1))
             /\ downscale = HoursNum(d)
       \/ \E in \in OddFamily \cup {HourlyInput} :
             nc = in[1] /\ downscale = in[2]
    /\ out_path = ConvPath
    /\ conv = NoConv
    /\ gdf_in = Idle /\ written = Idle
    /\ config = Idle /\ tasks = Idle /\ next_task = 0
    /\ handed = Idle /\ outcomes = Idle /\ exit_code = -1

CallLine ==
    /\ phase = "call"
    /\ \E backend_fails \in BOOLEAN, collected \in BOOLEAN :
          conv' = ncTrk2line(nc, out_path, downscale, backend_fails, collected)
    /\ phase' = "line"
    /\ UNCHANGED <<nc, downscale, gdf_in, out_path, written, config, tasks,
                   next_task, handed, outcomes, exit_code>>

CallPt ==
    /\ phase = "call"
    /\ \E backend_fails \in BOOLEAN, collected \in BOOLEAN :
          conv' = ncTrk2pt(nc, out_path, downscale, backend_fails, collected)
    /\ phase' = "point"
    /\ UNCHANGED <<nc, downscale, gdf_in, out_path, written, config, tasks,
                   next_task, handed, outcomes, exit_code>>

NextConv == CallLine \/ CallPt

SpecConv == InitConv /\ [][NextConv]_vars

---------------------------------------------------------------------------
(* One export_gdf call *)

SampleLines ==
    [columns |-> LineColumns,
     rows |-> <<[par_id |-> 0, time_start |-> 0, time_end |-> 4,
                 geometry |-> <<<<11, 111>>, <<21, 121>>>>]>>]

SamplePoints ==
    [columns |-> PointColumns,
     rows |-> <<[par_id |-> 0, time |-> 0, geometry |-> <<11, 111>>]>>]

\* an extension with its first letter in upper case
Capitalised(e) ==
    IF Len(e) < 2 THEN e
    ELSE <<e[1]>> \o Upper(<<e[2]>>) \o SubSeq(e, 3, Len(e))

ExportExts ==
    DOMAIN DRIVER_MAP
    \cup {CsvExt, XlsxExt, <<>>, <<".", "t", "x", "t">>,
          <<".", "s", "h", "p", ".", "x", "m", "l">>}

ExportPaths ==
    {dir \o stem \o ext :
        dir \in {<<>>, <<"d", "/">>, <<"d", ".", "c", "s", "v", "/">>, <<"/">>},
        stem \in {<<"o">>, <<>>},
        ext \in ExportExts \cup {Upper(e) : e \in ExportExts}
                \cup {Capitalised(e) : e \in ExportExts}} \ {<<>>}

InitExport ==
    /\ phase = "export"
    /\ gdf_in \in {SampleLines, SamplePoints}
    /\ out_path \in ExportPaths
    /\ written = NotExported
    /\ nc = Idle /\ downscale = Idle /\ conv = Idle
    /\ config = Idle /\ tasks = Idle /\ next_task = 0
    /\ handed = Idle /\ outcomes = Idle /\ exit_code = -1

Export ==
    /\ phase = "export"
    /\ \E backend_fails \in BOOLEAN :
          written' = export_gdf(gdf_in, out_path, backend_fails)
    /\ phase' = "exported"
    /\ UNCHANGED <<nc, downscale, conv, gdf_in, out_path, config, tasks,
                   next_task, handed, outcomes, exit_code>>

NextExport == Export

SpecExport == InitExport /\ [][NextExport]_vars

---------------------------------------------------------------------------
(* cli.py: process_task and main *)

PointWord == <<"p", "o", "i", "n", "t">>
LineWord == <<"l", "i", "n", "e">>

\* Python's truth value of a task field: a missing key gives None
Falsy(j) ==
    \/ j.type \in {"absent", "null"}
    \/ j.type = "str" /\ j.s = <<>>
    \/ j.type = "num" /\ j.n = 0

\* the files of the model's file system
GoodNc == <<"a", ".", "n", "c">>
RepeatedNc == <<"z", ".", "n", "c">>
AbsentNc == <<"m", ".", "n", "c">>

\* what os.path.isfile and xr.open_dataset find at a path: a.nc holds three
\* timesteps of two particles, the second all fill; z.nc repeats one
\* timestamp; nothing else exists
FileAt(path) ==
    IF path = GoodNc
    THEN Dataset(UniformAxis(3), 2, {},
                 <<<<"ok", "lon_fill">>, <<"ok", "lon_fill">>,
                   <<"ok", "lon_fill">>>>)
    ELSE IF path = RepeatedNc
    THEN Dataset(<<1, 1, 1>>, 1, {}, AllGood(3, 1))
    ELSE MissingFile

Outcome(uncaught, reported, routine, res) ==
    [uncaught |-> uncaught, reported |-> reported, routine |-> routine,
     conv |-> res]

process_task(task, backend_fails, collected) ==
    IF ~task.is_object
    THEN Outcome("AttributeError", "none", "none", NoConv)
    ELSE IF task.mode.type \notin {"absent", "str"}
    THEN Outcome("AttributeError", "none", "none", NoConv)
    ELSE
    LET nc_file == task.input_nc
        output_path == task.output_path
        mode == IF task.mode.type = "absent" THEN PointWord
                ELSE Lower(task.mode.s)
        downscale_hour ==
            IF task.downscale_hour.type = "absent" THEN HoursNum(7200)
            ELSE task.downscale_hour
    IN IF Falsy(nc_file) \/ Falsy(output_path)
       THEN Outcome("none", "missing_field", "none", NoConv)
       ELSE IF output_path.type # "str"
       THEN Outcome("TypeError", "none", "none", NoConv)
       ELSE IF mode = LineWord
       THEN LET r == ncTrk2line(FileAt(nc_file.s), output_path.s,
                                downscale_hour, backend_fails, collected)
            IN Outcome("none",
                       IF r.exc # "none" THEN "task_error" ELSE "none",
                       "line", r)
       ELSE IF mode = PointWord
       THEN LET r == ncTrk2pt(FileAt(nc_file.s), output_path.s,
                              downscale_hour, backend_fails, collected)
            IN Outcome("none",
                       IF r.exc # "none" THEN "task_error" ELSE "none",
                       "point", r)
       ELSE Outcome("none", "unknown_mode", "none", NoConv)

Task(input_nc, output_path, mode, downscale_hour) ==
    [is_object |-> TRUE, input_nc |-> input_nc, output_path |-> output_path,
     mode |-> mode, downscale_hour |-> downscale_hour]

\* a list element that is no JSON object (a number, a string)
NotAnObject ==
    [is_object |-> FALSE, input_nc |-> JsonAbsent, output_path |-> JsonAbsent,
     mode |-> JsonAbsent, downscale_hour |-> JsonAbsent]

CsvPath == <<"d", "/", "o", ".", "c", "s", "v">>

TaskObjects ==
    {Task(i, o, m, JsonAbsent) :
        i \in {JsonAbsent, JsonStr(GoodNc), JsonStr(AbsentNc)},
        o \in {JsonAbsent, JsonStr(CsvPath)},
        m \in {JsonAbsent, JsonStr(<<"L", "I", "N", "E">>),
               JsonStr(<<"a", "r", "e", "a">>), JsonNull}}
    \cup {Task(JsonStr(GoodNc), JsonStr(CsvPath), JsonStr(<<"P", "o", "i", "n", "t">>),
               JsonNull),
          Task(JsonStr(GoodNc), JsonStr(CsvPath), JsonStr(LineWord),
               JsonStr(<<"3">>)),
          Task(JsonStr(RepeatedNc), JsonStr(CsvPath), JsonStr(LineWord),
               HoursNum(7200)),
          Task(JsonStr(<<>>), JsonStr(CsvPath), JsonAbsent, JsonAbsent),
          Task(JsonStr(GoodNc), HoursNum(5), JsonAbsent, JsonAbsent)}

TaskItems == TaskObjects \cup {NotAnObject}

ConfigFile(exists, valid_json, shape, items) ==
    [exists |-> exists, valid_json |-> valid_json, shape |-> shape,
     items |-> items]

Init ==
    /\ phase = "main"
    /\ \/ \E n \in 0..MaxTasks, shape \in {"list", "dict_tasks"} :
             \E items \in [1..n -> TaskItems] :
                config = ConfigFile(TRUE, TRUE, shape, items)
       \/ \E t \in TaskObjects : config = ConfigFile(TRUE, TRUE, "dict", <<t>>)
       \/ config \in {ConfigFile(TRUE, TRUE, "scalar", <<>>),
                      ConfigFile(TRUE, FALSE, "none", <<>>),
                      ConfigFile(FALSE, FALSE, "none", <<>>)}
    /\ tasks = <<>> /\ next_task = 0
    /\ handed = <<>> /\ outcomes = <<>> /\ exit_code = -1
    /\ nc = Idle /\ downscale = Idle /\ conv = Idle
    /\ gdf_in = Idle /\ out_path = Idle /\ written = Idle

\* lines 45-48: sys.exit(1) when the config path does not exist
CheckConfig ==
    /\ phase = "main"
    /\ IF config.exists
       THEN phase' = "load" /\ exit_code' = exit_code
       ELSE phase' = "exited" /\ exit_code' = 1
    /\ UNCHANGED <<nc, downscale, conv, gdf_in, out_path, written, config,
                   tasks, next_task, handed, outcomes>>

\* lines 50-68: json.load, sys.exit(1) on a JSONDecodeError, then the task
\* list from the shape of the value
LoadConfig ==
    /\ phase = "load"
    /\ IF ~config.valid_json
       THEN /\ phase' = "exited" /\ exit_code' = 1
            /\ UNCHANGED <<tasks, next_task>>
       ELSE /\ phase' = "loop" /\ exit_code' = exit_code
            /\ next_task' = 1
            /\ tasks' = IF config.shape \in {"list", "dict_tasks", "dict"}
                        THEN config.items
                        ELSE <<>>
    /\ UNCHANGED <<nc, downscale, conv, gdf_in, out_path, written, config,
                   handed, outcomes>>

\* lines 70-71: one pass of  for task in tasks: process_task(task) ; an
\* exception process_task lets through ends the interpreter with status 1
ProcessTask ==
    /\ phase = "loop"
    /\ next_task <= Len(tasks)
    /\ \E backend_fails \in BOOLEAN, collected \in BOOLEAN :
          LET o == process_task(tasks[next_task], backend_fails, collected)
          IN /\ outcomes' = Append(outcomes, o)
             /\ IF o.uncaught # "none"
                THEN phase' = "exited" /\ exit_code' = 1
                     /\ next_task' = next_task
                ELSE phase' = phase /\ exit_code' = exit_code
                     /\ next_task' = next_task + 1
    /\ handed' = Append(handed, next_task)
    /\ UNCHANGED <<nc, downscale, conv, gdf_in, out_path, written, config,
                   tasks>>

\* line 73 and the end of main: "All tasks completed", exit status 0
Finish ==
    /\ phase = "loop"
    /\ next_task > Len(tasks)
    /\ phase' = "completed"
    /\ exit_code' = 0
    /\ UNCHANGED <<nc, downscale, conv, gdf_in, out_path, written, config,
                   tasks, next_task, handed, outcomes>>

Next == CheckConfig \/ LoadConfig \/ ProcessTask \/ Finish

Spec == Init /\ [][Next]_vars

---------------------------------------------------------------------------
(* Properties of a conversion call (SpecConv) *)

\* the call has exited, by return or by exception
ConvExited == phase \in {"line", "point"}

\* the file exists, holds the three variables, the interval is a number and
\* the time axis has at least two timestamps
ConvertibleInput ==
    /\ nc.exists
    /\ AllVariables \subseteq nc.variables
    /\ downscale.type = "num"
    /\ Len(nc.time) >= 2

\* the call got as far as the downscaled arrays
Downsampled == ConvExited /\ conv.step > 0

NParticles == Len(nc.lon[1])

\* the timesteps the every-step-th selection from index 0 keeps
RetainedTimesteps == {i \in DOMAIN nc.time : (i - 1) % conv.step = 0}

\* a coordinate that is a finite number other than the dataset's fill value
ValidCoordinate(f) ==
    ~f.nan /\ ~f.inf /\ f.v # fill_val(nc).v

\* the retained timesteps at which particle p has both coordinates valid
ValidRetained(p) ==
    {i \in RetainedTimesteps :
        ValidCoordinate(nc.lon[i][p]) /\ ValidCoordinate(nc.lat[i][p])}

IsHourlyInput == nc.time = HourlyAxis /\ downscale = HoursNum(3 * 7200)

\* C1: for every time axis of length N >= 2 and every requested interval the
\* call computes a stride that is a positive integer and keeps exactly
\* ceil(N / stride) timesteps; 100 hourly steps with downscale_hour = 3 give
\* stride 3 and 34 timesteps.
C1_StrideAndCount ==
    (ConvExited /\ ConvertibleInput) =>
        /\ conv.step >= 1
        /\ Len(conv.rows) = (Len(nc.time) + conv.step - 1) \div conv.step
        /\ IsHourlyInput => conv.step = 3 /\ Len(conv.rows) = 34

\* C1 on the time axes whose median difference is not zero: there the
\* statement holds
StrideOnNonDegenerateAxis ==
    (ConvExited /\ ConvertibleInput /\ Median2(Diff(nc.time)) # 0) =>
        /\ conv.step >= 1
        /\ Len(conv.rows) = (Len(nc.time) + conv.step - 1) \div conv.step
        /\ IsHourlyInput => conv.step = 3 /\ Len(conv.rows) = 34

\* C3: line mode emits a track for particle p exactly when p has at least
\* two retained timesteps with both coordinates valid, and raises nothing
\* over the others; a track's vertices are p's valid retained positions in
\* time order and its start and end are the first and last valid retained
\* timestamps (as retained: rounded to whole seconds).
C3_LineTracks ==
    (phase = "line" /\ Downsampled) =>
        /\ conv.exc \in {"none", "BackendError"}
        /\ \A p \in 1..NParticles :
              Cardinality({j \in DOMAIN conv.records :
                              conv.records[j].par_id = p - 1})
                  = IF Cardinality(ValidRetained(p)) >= 2 THEN 1 ELSE 0
        /\ \A j \in DOMAIN conv.records :
              LET r == conv.records[j]
                  p == r.par_id + 1
                  at == Ascending(ValidRetained(p))
              IN /\ r.geometry = [k \in DOMAIN at |->
                                     <<nc.lon[at[k]][p].v, nc.lat[at[k]][p].v>>]
                 /\ r.time_start = RoundS(nc.time[at[1]])
                 /\ r.time_end = RoundS(nc.time[at[Len(at)]])

\* C3's case: a returned collection, with one particle dropped for having a
\* single valid retained position and one track that skips an invalid one
C3_Witness ==
    /\ phase = "line" /\ Downsampled /\ conv.ret = "gdf"
    /\ \E p \in 1..NParticles : Cardinality(ValidRetained(p)) = 1
    /\ \E p \in 1..NParticles : Cardinality(ValidRetained(p)) >= 2

RECURSIVE PointsOfTimestep(_, _)
\* the records of timestep i for the particles 1..p, in particle order
PointsOfTimestep(i, p) ==
    IF p = 0 THEN <<>>
    ELSE PointsOfTimestep(i, p - 1)
         \o (IF i \in ValidRetained(p)
             THEN <<[par_id |-> p - 1, time |-> RoundS(nc.time[i]),
                     geometry |-> <<nc.lon[i][p].v, nc.lat[i][p].v>>]>>
             ELSE <<>>)

RECURSIVE PointsOfTimesteps(_)
\* the records of the timesteps in the sequence ts, timestep after timestep
PointsOfTimesteps(ts) ==
    IF ts = <<>> THEN <<>>
    ELSE PointsOfTimestep(ts[1], NParticles) \o PointsOfTimesteps(Tail(ts))

\* C4: point mode emits exactly one record per (retained timestep, particle)
\* pair with both coordinates valid and none for any other pair, in
\* time-major order, each with the pair's particle id and timestamp
\* (rounded to whole seconds) and its position.
C4_PointRecords ==
    (phase = "point" /\ Downsampled) =>
        conv.records = PointsOfTimesteps(Ascending(RetainedTimesteps))

\* C4's case: two particles or more, one with exactly one valid retained
\* position, one with several, and a returned collection
C4_Witness ==
    /\ phase = "point" /\ Downsampled /\ conv.ret = "gdf"
    /\ \E p \in 1..NParticles : Cardinality(ValidRetained(p)) = 1
    /\ \E p \in 1..NParticles : Cardinality(ValidRetained(p)) >= 2

NoGeometry ==
    \/ phase = "line"
       /\ \A p \in 1..NParticles : Cardinality(ValidRetained(p)) < 2
    \/ phase = "point" /\ \A p \in 1..NParticles : ValidRetained(p) = {}

\* C5: when the downsampled data yields no valid geometry, the call returns
\* None without raising and export_gdf is never called: no file is written
\* and no directory is made.
C5_NoOutput ==
    (Downsampled /\ NoGeometry) =>
        /\ conv.ret = "None"
        /\ conv.exc = "none"
        /\ ~conv.export.called
        /\ ~conv.export.file_written
        /\ conv.export.made_dirs = {}

\* C5's case: line mode returning None although a particle has one valid
\* retained position (point mode would export it)
C5_Witness ==
    /\ phase = "line" /\ Downsampled /\ NoGeometry
    /\ \E p \in 1..NParticles : Cardinality(ValidRetained(p)) = 1
    /\ conv.ret = "None"

\* C6: the dataset a conversion call opened is closed by the time the call
\* exits, on every exit path (return after export, return of None,
\* exception).
C6_DatasetClosedAtExit == ConvExited => conv.ds # "open"

\* C10: when the median of the time differences is zero, the stride
\* computation does not divide by zero: it raises nothing and yields a
\* stride of at least 1, so the conversion proceeds.
C10_ZeroMedianStride ==
    (ConvExited /\ ConvertibleInput /\ Median2(Diff(nc.time)) = 0) =>
        /\ conv.exc # "ZeroDivisionError"
        /\ conv.step >= 1

---------------------------------------------------------------------------
(* Properties of an export_gdf call (SpecExport) *)

\* the lower-cased extension of the output path
LoweredExt == Lower(SplitExt(out_path))

TabularExts == {CsvExt, XlsxExt}

\* what the claim and the amended claim share: the writer and the driver
\* follow from the lower-cased extension, datetime columns are stringified
\* for .shp and .xlsx only
BehaviourByExtension ==
    /\ written.called
    /\ written.ext = LoweredExt
    /\ LoweredExt = CsvExt =>
          written.writer = "to_csv" /\ written.driver = "none"
    /\ LoweredExt = XlsxExt =>
          written.writer = "to_excel" /\ written.driver = "none"
    /\ LoweredExt \in DOMAIN DRIVER_MAP =>
          written.writer = "to_file" /\ written.driver = DRIVER_MAP[LoweredExt]
    /\ LoweredExt \notin DOMAIN DRIVER_MAP \cup TabularExts =>
          written.writer = "to_file" /\ written.driver = "default"
    /\ written.stringified =
          IF LoweredExt \in {ShpExt, XlsxExt} THEN DatetimeColumns(gdf_in)
          ELSE {}

\* C9 as stated: the behaviour follows from the lower-cased extension, the
\* spatial formats write geometry plus attributes, and .csv and .xlsx write
\* the attributes only, with no geometry column.
C9_TabularWithoutGeometry ==
    phase = "exported" =>
        /\ BehaviourByExtension
        /\ LoweredExt \notin TabularExts =>
              Range(written.columns) = Range(ColumnNames(gdf_in))
        /\ LoweredExt \in TabularExts =>
              Range(written.columns) = Range(ColumnNames(gdf_in)) \ {"geometry"}

\* C9 amended: the behaviour follows from the lower-cased extension, and
\* every format, .csv and .xlsx included, writes every column of the
\* collection, the geometry column among them.
C9_ExportByExtension ==
    phase = "exported" =>
        /\ BehaviourByExtension
        /\ written.columns = ColumnNames(gdf_in)
        /\ "geometry" \in Range(written.columns)

\* C9's case: an upper-case .CSV path written through to_csv
C9_Witness ==
    /\ phase = "exported"
    /\ SplitExt(out_path) = Upper(CsvExt)
    /\ written.writer = "to_csv"
    /\ written.file_written

---------------------------------------------------------------------------
(* Properties of a command-line run (Spec) *)

Terminated == phase \in {"exited", "completed"}

ConfigLoaded == config.exists /\ config.valid_json

\* every element of the task list is a JSON object whose output_path, when
\* given, is a string
TaskObjectsOnly ==
    \A i \in DOMAIN config.items :
        /\ config.items[i].is_object
        /\ config.items[i].output_path.type \in {"absent", "str"}

\* C2: whatever the tasks contain and however they fail, every task is
\* handed to process_task exactly once, in list order, and the run reaches
\* "All tasks completed".
C2_EveryTaskHanded ==
    (Terminated /\ ConfigLoaded /\ TaskObjectsOnly) =>
        /\ phase = "completed"
        /\ handed = [i \in 1..Len(tasks) |-> i]

\* C7: the run exits with status 1 if the config path does not exist or the
\* file is not valid JSON, and with status 0 in every other case, even if
\* tasks fail.
C7_ExitCode ==
    (Terminated /\ TaskObjectsOnly) =>
        exit_code = IF ConfigLoaded THEN 0 ELSE 1

RequiredFieldMissing(t) ==
    t.input_nc.type = "absent" \/ t.output_path.type = "absent"

ModeIsPointOrLine(t) ==
    \/ t.mode.type = "absent"
    \/ t.mode.type = "str" /\ Lower(t.mode.s) \in {PointWord, LineWord}

\* C8: process_task calls a conversion routine only when both required
\* fields are present and the mode is 'point' or 'line' in any letter case
\* (or left out); a task that misses a required field or carries any other
\* mode value is skipped with a reported error, no routine called, no file
\* written.
C8_SkipOrConvert ==
    phase \in {"loop", "exited", "completed"} =>
        \A k \in DOMAIN outcomes :
            LET t == tasks[handed[k]]
                o == outcomes[k]
            IN t.is_object =>
                /\ o.routine # "none" =>
                      ~RequiredFieldMissing(t) /\ ModeIsPointOrLine(t)
                /\ (RequiredFieldMissing(t) \/ ~ModeIsPointOrLine(t)) =>
                      /\ o.uncaught = "none"
                      /\ o.reported \in {"missing_field", "unknown_mode"}
                      /\ o.routine = "none"
                      /\ ~o.conv.export.file_written

====
